---- MODULE Spec2Model ----
(***************************************************************************)
(* Wishlist reminder campaign: the orchestrator (orchestrator.py) and the  *)
(* stage worker (wishlist_reminder.py).                                    *)
(*                                                                         *)
(* Each pipeline invocation is a process p.  It takes the lock file, runs  *)
(* the three stages in order, each stage as a worker sub-process that it   *)
(* relaunches after a non-zero exit, and removes the lock file.  A worker  *)
(* computes its window from the clock, selects candidates from the store,  *)
(* and for each candidate renders, sends and logs.                         *)
(*                                                                         *)
(* Times are whole hours since an arbitrary epoch.  Email addresses are    *)
(* sequences of characters, so that strip() and lower() are computed.      *)
(***************************************************************************)
EXTENDS Integers, Sequences, FiniteSets, TLC

\* ------------------------------------------------------------------ bounds
NumProcs == 2      \* pipeline invocations
SentCap  == 2      \* accepted-message counters saturate here

Procs == 1..NumProcs

\* --------------------------------------------------------- program constants
MAX_RETRIES == 2                       \* default of ORCH_MAX_RETRIES
BACKOFF_SECS == <<10, 30>>
TARGET_HOURS_24 == 24
TARGET_HOURS_48 == 48
TARGET_HOURS_72 == 72
WINDOW_TOLERANCE_H == 6
LOCAL_TZ_OFFSET == <<"-", "0", "6", ":", "0", "0">>     \* "-06:00"
EXIT_TEMPLATE == 2                     \* sys.exit(2): template not loaded
EXIT_DB == 3                           \* sys.exit(3): MySQL connection failed
EXIT_FATAL == 1                        \* sys.exit(1): uncaught exception
EXIT_NO_WORKER == 127                  \* run_worker: worker file missing
EXIT_KILLED == -9                      \* returncode of a worker killed by SIGKILL

stages ==
  << [STAGE |-> 24, TARGET_HOURS |-> TARGET_HOURS_24, CAMPAIGN_KEY |-> "wishlist_v1_24h"],
     [STAGE |-> 48, TARGET_HOURS |-> TARGET_HOURS_48, CAMPAIGN_KEY |-> "wishlist_v1_48h"],
     [STAGE |-> 72, TARGET_HOURS |-> TARGET_HOURS_72, CAMPAIGN_KEY |-> "wishlist_v1_72h"] >>

NumStages == Len(stages)
CampaignKeys == {stages[i].CAMPAIGN_KEY : i \in 1..NumStages}

\* ------------------------------------------------------------------- time
\* A datetime is a number of whole seconds since 00:00 of day 0, UTC or local,
\* and a number of microseconds, as Python keeps it.  A timedelta is a number
\* of seconds.
Minute == 60
Hour == 3600
Day == 24 * Hour
MaxMicro == 999999                     \* datetime.max.time() is 23:59:59.999999

DateTime(sec, micro) == [s |-> sec, us |-> micro]

\* a <= b on datetimes
DtLe(a, b) == a.s < b.s \/ (a.s = b.s /\ a.us <= b.us)

\* d + timedelta(seconds = k)
PlusSeconds(d, k) == DateTime(d.s + k, d.us)

\* d.strftime("%Y-%m-%d %H:%M:%S"): the microseconds are dropped.  The value
\* is the number of seconds MySQL reads from the string.
strftime(d) == d.s

\* d.date(), as a number of days
DateOf(d) == d.s \div Day

\* Clock readings: the first one, and one per day after it, so that an event
\* moves from the 24 h window to the 48 h window to the 72 h window.
NowValues == {DateTime((96 + 24 * k) * Hour, 0) : k \in 0..2}

NoFile == 0        \* the lock file does not exist
None == "none"

\* The row variable r of the worker's loop before and after the loop.
NoRow == [email |-> <<>>, wishlist_id |-> 0]

\* ------------------------------------------------------------ email strings
EmailA   == <<"a">>
EmailSpA == <<" ", "a">>
EmailB   == <<"b">>
EmailC   == <<"c">>

LowerChar(c) == IF c = "A" THEN "a" ELSE IF c = "B" THEN "b" ELSE IF c = "C" THEN "c" ELSE c

\* str.lower()
Lower(s) == [i \in 1..Len(s) |-> LowerChar(s[i])]

\* str.strip(): leading and trailing whitespace removed
RECURSIVE LStrip(_)
LStrip(s) == IF s # <<>> /\ Head(s) = " " THEN LStrip(Tail(s)) ELSE s

RECURSIVE RStrip(_)
RStrip(s) == IF s # <<>> /\ s[Len(s)] = " " THEN RStrip(SubSeq(s, 1, Len(s) - 1)) ELSE s

Strip(s) == RStrip(LStrip(s))

\* r["email"].strip().lower() in main, email.lower().strip() in insert_log
NormEmail(s) == Lower(Strip(s))

\* The = of the exclusion join.  Leading whitespace is significant under
\* every MySQL collation; the stores below hold no address that differs from
\* another one only in case or trailing blanks, where collations differ.
SqlEq(x, y) == x = y


\* -------------------------------------------------------------------- state
VARIABLES
  maxRetries,   \* MAX_RETRIES as read from ORCH_MAX_RETRIES
  maxBatch,     \* MAX_BATCH
  sendEmails,   \* SEND_EMAILS
  wishlistUrl,  \* WISHLIST_URL: "" (missing), "bad" (no scheme/host), "ok"
  guests,       \* rows of wishlist_guest_emails: email, wishlist_id, created_at (local)
  items,        \* number of rows of tinvwl_items per wishlist
  log,          \* rows of wishlist_email_log: email, wishlist_id, campaign_key
  sent,         \* messages the SMTP server accepted, counted per (to, wishlist, campaign)
  now,          \* the last clock reading
  horizon,      \* the clock is not read after this hour
  fixedMode,    \* FIXED_8AM_MODE
  tolerance,    \* WINDOW_TOLERANCE_H
  lockFile,     \* NoFile, or the pid written into the lock file
  pc,           \* orchestrator p: "acquire", "launch", "wait", "sleep", "release",
                \*                 "exit" (sys.exit(main()) with main's value), "done"
  stageIdx,     \* the stage of the for loop, 1..3
  attempt,      \* attempt
  rc,           \* rc, the value run_worker returns
  ret,          \* the value main returns: the exit status of the pipeline
  gotLock,      \* what acquire_lock returned
  runs,         \* history: calls of run_worker for the current stage
  fails,        \* history: non-zero results of run_worker for the current stage
  sleeps,       \* history: the sleeps taken for the current stage
  launched,     \* history: the stages run_worker was called for
  okStages,     \* history: the stages whose worker ended with 0
  released,     \* history: release_lock was called
  wpc,          \* worker of p: None, "boot", "connect", "select", "loop", "render",
                \*              "send", "insert", "exited"
  win,          \* start_utc, end_utc
  todo,         \* the rows the for loop has not reached yet
  cur,          \* the row r of the for loop
  batch,        \* history: the rows select_candidates returned
  delivered     \* history: row and campaign of each insert_log that completed

cfgVars   == <<maxRetries, maxBatch, sendEmails, wishlistUrl, guests, items, horizon,
               fixedMode, tolerance>>
orchVars  == <<pc, stageIdx, attempt, ret, gotLock>>
orchHist  == <<runs, fails, sleeps, launched, okStages, released>>
workVars  == <<wpc, rc, win, todo, cur>>
workHist  == <<batch, delivered>>
vars == <<cfgVars, log, sent, now, lockFile, orchVars, orchHist, workVars, workHist>>

\* ------------------------------------------------------------------- store
Wishlists == 1..5

RowA1  == [email |-> EmailA,   wishlist_id |-> 1, created_at |-> 66 * Hour]
RowA2  == [email |-> EmailA,   wishlist_id |-> 2, created_at |-> 66 * Hour]
RowSp3 == [email |-> EmailSpA, wishlist_id |-> 3, created_at |-> 66 * Hour]
RowB4  == [email |-> EmailB,   wishlist_id |-> 4, created_at |-> 66 * Hour]
RowC5  == [email |-> EmailC,   wishlist_id |-> 5, created_at |-> 66 * Hour]

\* Wishlist 4 is empty, wishlist 1 holds two items, the others one.
StoreItems == [w \in Wishlists |-> IF w = 4 THEN 0 ELSE IF w = 1 THEN 2 ELSE 1]

Pairs == {[email |-> g.email, wishlist_id |-> g.wishlist_id] :
            g \in {RowA1, RowA2, RowSp3, RowB4, RowC5}}

Msgs == [to : {NormEmail(q.email) : q \in Pairs}, wishlist_id : Wishlists,
         campaign_key : CampaignKeys]

Min(a, b) == IF a <= b THEN a ELSE b

\* ------------------------------------------------------------------ windows
\* int("06"), int("00")
Digits == <<"0", "1", "2", "3", "4", "5", "6", "7", "8", "9">>
DigitValue(c) == (CHOOSE i \in 1..10 : Digits[i] = c) - 1
IntOf(str) == IF Len(str) = 1 THEN DigitValue(str[1])
                              ELSE 10 * DigitValue(str[1]) + DigitValue(str[2])

\* parse_tz_offset_to_delta: "-06:00" is -6 hours, "+05:30" is 5 h 30 min.
parse_tz_offset_to_delta(tz) ==
  LET sign == IF tz[1] = "-" THEN -1 ELSE 1
      body == IF tz[1] \in {"+", "-"} THEN Tail(tz) ELSE tz
      colon == CHOOSE i \in 1..Len(body) : body[i] = ":"
      hh == SubSeq(body, 1, colon - 1)
      mm == SubSeq(body, colon + 1, Len(body))
  IN  sign * (IntOf(hh) * Hour + IntOf(mm) * Minute)

\* CONVERT_TZ(created_at, LOCAL_TZ_OFFSET, '+00:00'), on whole seconds
ConvertTz(t) == t - parse_tz_offset_to_delta(LOCAL_TZ_OFFSET)

\* Mutant of stage_window_bounds_relative: the tolerance is taken off the end
\* only.
stage_window_bounds_relative_OneSided(n, T, W) ==
  [start |-> PlusSeconds(n, - T * Hour), end |-> PlusSeconds(n, - (T - W) * Hour)]

\* stage_window_bounds_relative, for the reading n of the clock, TARGET_HOURS
\* T and WINDOW_TOLERANCE_H W
stage_window_bounds_relative(n, T, W) ==
  [start |-> PlusSeconds(n, - (T + W) * Hour), end |-> PlusSeconds(n, - (T - W) * Hour)]

\* Mutant of days_back: always yesterday.
days_back_Yesterday(T) == 1

\* max(1, target_hours // 24)
days_back(T) == IF T \div 24 >= 1 THEN T \div 24 ELSE 1

\* day_bounds_utc_for_target_fixed_8am, for the reading n of the clock
day_bounds_utc_for_target_fixed_8am(n, T, tz) ==
  LET offset == parse_tz_offset_to_delta(tz)
      now_local == PlusSeconds(n, offset)
      target_local_date == DateOf(now_local) - days_back(T)
      start_local == DateTime(target_local_date * Day, 0)
      end_local == DateTime(target_local_date * Day + Day - 1, MaxMicro)
  IN  [start |-> PlusSeconds(start_local, - offset), end |-> PlusSeconds(end_local, - offset)]

\* The window before compute_window has run.
NoWindow == [start |-> DateTime(0, 0), end |-> DateTime(0, 0)]

\* ---------------------------------------------------------------- selection
\* Mutant of Eligible: the LEFT JOIN on the log and its IS NULL test are missing.
Eligible_NoExclusion(ck, w) ==
  { [email |-> g.email, wishlist_id |-> g.wishlist_id] :
      g \in { h \in guests :
                /\ items[h.wishlist_id] >= 1
                /\ strftime(w.start) <= ConvertTz(h.created_at)
                /\ ConvertTz(h.created_at) <= strftime(w.end) } }

\* Mutant of Eligible: the join on the log does not compare campaign_key.
Eligible_AnyCampaign(ck, w) ==
  { [email |-> g.email, wishlist_id |-> g.wishlist_id] :
      g \in { h \in guests :
                /\ items[h.wishlist_id] >= 1
                /\ strftime(w.start) <= ConvertTz(h.created_at)
                /\ ConvertTz(h.created_at) <= strftime(w.end)
                /\ ~ \E l \in log : /\ SqlEq(l.email, h.email)
                                    /\ l.wishlist_id = h.wishlist_id } }

\* The rows of the SELECT DISTINCT before LIMIT.
Eligible(ck, w) ==
  { [email |-> g.email, wishlist_id |-> g.wishlist_id] :
      g \in { h \in guests :
                /\ items[h.wishlist_id] >= 1
                /\ strftime(w.start) <= ConvertTz(h.created_at)
                /\ ConvertTz(h.created_at) <= strftime(w.end)
                /\ ~ \E l \in log : /\ SqlEq(l.email, h.email)
                                    /\ l.wishlist_id = h.wishlist_id
                                    /\ l.campaign_key = ck } }

\* LIMIT MAX_BATCH without ORDER BY: any MAX_BATCH of the rows.
select_candidates(ck, w) ==
  { B \in SUBSET Eligible(ck, w) :
      Cardinality(B) = Min(maxBatch, Cardinality(Eligible(ck, w))) }

\* The unique key of wishlist_email_log is (email, wishlist_id, campaign_key):
\* a row with the same key is replaced, so the table is a set of keys.
LogKey(l) == <<l.email, l.wishlist_id, l.campaign_key>>

insert_log(email, wishlist_id, ck) ==
  LET row == [email |-> NormEmail(email), wishlist_id |-> wishlist_id, campaign_key |-> ck]
  IN  log' = {l \in log : LogKey(l) # LogKey(row)} \cup {row}


\* ------------------------------------------------------------------- worker
\* The worker of p works for the stage p is at.
Stage(p) == stages[stageIdx[p]]
CAMPAIGN_KEY(p) == Stage(p).CAMPAIGN_KEY

Running(p) == wpc[p] \in {"boot", "connect", "select", "loop", "render", "send", "insert"}

\* The worker process ends with exit code c.
WorkerExit(p, c) ==
  /\ wpc' = [wpc EXCEPT ![p] = "exited"]
  /\ rc' = [rc EXCEPT ![p] = c]
  /\ todo' = [todo EXCEPT ![p] = {}]
  /\ cur' = [cur EXCEPT ![p] = NoRow]

WorkerGoto(p, l) == wpc' = [wpc EXCEPT ![p] = l] /\ UNCHANGED rc

\* compute_window, for the reading n of the clock and TARGET_HOURS T
WindowAt(n, T) ==
  IF fixedMode
    THEN day_bounds_utc_for_target_fixed_8am(n, T, LOCAL_TZ_OFFSET)
    ELSE stage_window_bounds_relative(n, T, tolerance)

\* compute_window in main.  The clock is read once; it never runs backwards.
compute_window(p) ==
  \E n \in NowValues :
    /\ DtLe(now, n)
    /\ n.s <= horizon * Hour
    /\ now' = n
    /\ win' = [win EXCEPT ![p] = WindowAt(n, Stage(p).TARGET_HOURS)]

\* Import of the module: WISHLIST_URL is missing, RuntimeError, exit code 1.
WorkerImportFail(p) ==
  /\ wpc[p] = "boot"
  /\ wishlistUrl = ""
  /\ WorkerExit(p, EXIT_FATAL)
  /\ UNCHANGED <<cfgVars, log, sent, now, lockFile, orchVars, orchHist, win, workHist>>

\* main: compute_window, then load_template fails: sys.exit(2).
WorkerTemplateFail(p) ==
  /\ wpc[p] = "boot"
  /\ wishlistUrl # ""
  /\ compute_window(p)
  /\ WorkerExit(p, EXIT_TEMPLATE)
  /\ UNCHANGED <<cfgVars, log, sent, lockFile, orchVars, orchHist, workHist>>

\* main: compute_window, load_template succeeds.
WorkerBoot(p) ==
  /\ wpc[p] = "boot"
  /\ wishlistUrl # ""
  /\ compute_window(p)
  /\ WorkerGoto(p, "connect")
  /\ UNCHANGED <<cfgVars, log, sent, lockFile, orchVars, orchHist, todo, cur, workHist>>

\* main: mysql_conn succeeds.
WorkerConnect(p) ==
  /\ wpc[p] = "connect"
  /\ WorkerGoto(p, "select")
  /\ UNCHANGED <<cfgVars, log, sent, now, lockFile, orchVars, orchHist, win, todo, cur, workHist>>

\* main: mysql_conn raises: sys.exit(3).
WorkerConnectFail(p) ==
  /\ wpc[p] = "connect"
  /\ WorkerExit(p, EXIT_DB)
  /\ UNCHANGED <<cfgVars, log, sent, now, lockFile, orchVars, orchHist, win, workHist>>

\* main: select_candidates returns rows; with no rows main returns, exit code 0.
WorkerSelect(p) ==
  /\ wpc[p] = "select"
  /\ \E rows \in select_candidates(CAMPAIGN_KEY(p), win[p]) :
       /\ batch' = [batch EXCEPT ![p] = rows]
       /\ UNCHANGED delivered
       /\ IF rows = {}
            THEN WorkerExit(p, 0)
            ELSE /\ WorkerGoto(p, "loop")
                 /\ todo' = [todo EXCEPT ![p] = rows]
                 /\ UNCHANGED cur
  /\ UNCHANGED <<cfgVars, log, sent, now, lockFile, orchVars, orchHist, win>>

\* main: select_candidates raises; the exception leaves main: exit code 1.
WorkerSelectFail(p) ==
  /\ wpc[p] = "select"
  /\ WorkerExit(p, EXIT_FATAL)
  /\ UNCHANGED <<cfgVars, log, sent, now, lockFile, orchVars, orchHist, win, workHist>>

\* main: for r in rows, the next row in the order the server returned them.
WorkerNext(p) ==
  /\ wpc[p] = "loop"
  /\ todo[p] # {}
  /\ \E r \in todo[p] :
       /\ cur' = [cur EXCEPT ![p] = r]
       /\ todo' = [todo EXCEPT ![p] = todo[p] \ {r}]
  /\ WorkerGoto(p, "render")
  /\ UNCHANGED <<cfgVars, log, sent, now, lockFile, orchVars, orchHist, win, workHist>>

\* main: the loop is over, main returns: sys.exit(0).
WorkerDone(p) ==
  /\ wpc[p] = "loop"
  /\ todo[p] = {}
  /\ WorkerExit(p, 0)
  /\ UNCHANGED <<cfgVars, log, sent, now, lockFile, orchVars, orchHist, win, workHist>>

\* _base_url: WISHLIST_URL has a scheme and a host.
BaseUrlValid == wishlistUrl = "ok"

\* Mutant of WorkerRender: SEND_EMAILS is not looked at.
WorkerRender_AlwaysSends(p) ==
  /\ wpc[p] = "render"
  /\ BaseUrlValid
  /\ WorkerGoto(p, "send")
  /\ UNCHANGED <<cfgVars, log, sent, now, lockFile, orchVars, orchHist, win, todo, cur, workHist>>

\* main: render_template returns; the message is sent, or previewed.
WorkerRender(p) ==
  /\ wpc[p] = "render"
  /\ BaseUrlValid
  /\ IF sendEmails
       THEN WorkerGoto(p, "send") /\ UNCHANGED cur
       ELSE WorkerGoto(p, "loop") /\ cur' = [cur EXCEPT ![p] = NoRow]
  /\ UNCHANGED <<cfgVars, log, sent, now, lockFile, orchVars, orchHist, win, todo, workHist>>

\* main: render_template raises (_base_url rejects WISHLIST_URL, or a query
\* fails).  The call is outside the try of the loop: the exception leaves
\* main, exit code 1.
WorkerRenderFail(p) ==
  /\ wpc[p] = "render"
  /\ WorkerExit(p, EXIT_FATAL)
  /\ UNCHANGED <<cfgVars, log, sent, now, lockFile, orchVars, orchHist, win, workHist>>

\* The message send_email hands to the SMTP server for the current row.
Message(p) ==
  [to |-> NormEmail(cur[p].email), wishlist_id |-> cur[p].wishlist_id,
   campaign_key |-> CAMPAIGN_KEY(p)]

\* server.sendmail returns: the server accepted the message.
Accept(p) ==
  /\ sent' = [sent EXCEPT ![Message(p)] = Min(@ + 1, SentCap)]
  /\ UNCHANGED workHist

\* send_email returns the Message-ID.
WorkerSend(p) ==
  /\ wpc[p] = "send"
  /\ Accept(p)
  /\ WorkerGoto(p, "insert")
  /\ UNCHANGED <<cfgVars, log, now, lockFile, orchVars, orchHist, win, todo, cur>>

\* send_email raises before the server accepted anything (connection, login,
\* refused recipient); except: the row is skipped.
WorkerSendFail(p) ==
  /\ wpc[p] = "send"
  /\ WorkerGoto(p, "loop")
  /\ cur' = [cur EXCEPT ![p] = NoRow]
  /\ UNCHANGED <<cfgVars, log, sent, now, lockFile, orchVars, orchHist, win, todo, workHist>>

\* send_email raises in server.quit(), after the server accepted the message;
\* except: the row is skipped, insert_log is not called.
WorkerSendQuitFail(p) ==
  /\ wpc[p] = "send"
  /\ Accept(p)
  /\ WorkerGoto(p, "loop")
  /\ cur' = [cur EXCEPT ![p] = NoRow]
  /\ UNCHANGED <<cfgVars, log, now, lockFile, orchVars, orchHist, win, todo>>

\* main: insert_log after send_email returned.
WorkerInsertLog(p) ==
  /\ wpc[p] = "insert"
  /\ insert_log(cur[p].email, cur[p].wishlist_id, CAMPAIGN_KEY(p))
  /\ delivered' = delivered \cup {[email |-> cur[p].email, wishlist_id |-> cur[p].wishlist_id,
                                    campaign_key |-> CAMPAIGN_KEY(p)]}
  /\ WorkerGoto(p, "loop")
  /\ cur' = [cur EXCEPT ![p] = NoRow]
  /\ UNCHANGED <<cfgVars, sent, now, lockFile, orchVars, orchHist, win, todo, batch>>

\* insert_log raises; except: the row is skipped.
WorkerInsertLogFail(p) ==
  /\ wpc[p] = "insert"
  /\ WorkerGoto(p, "loop")
  /\ cur' = [cur EXCEPT ![p] = NoRow]
  /\ UNCHANGED <<cfgVars, log, sent, now, lockFile, orchVars, orchHist, win, todo, workHist>>

\* The worker process is killed, at any point.
WorkerKilled(p) ==
  /\ Running(p)
  /\ WorkerExit(p, EXIT_KILLED)
  /\ UNCHANGED <<cfgVars, log, sent, now, lockFile, orchVars, orchHist, win, workHist>>


\* ------------------------------------------------------------- orchestrator
\* Mutant of acquire_lock: the file is opened without O_EXCL.
acquire_lock_NoExcl(p, ok) == lockFile' = p /\ ok = TRUE

\* Mutant of acquire_lock: the call waits until the file is gone.
acquire_lock_Blocking(p, ok) == lockFile = NoFile /\ lockFile' = p /\ ok = TRUE

\* Mutant of acquire_lock: a lock file whose writer is no longer alive is
\* taken over.
acquire_lock_TakesOverStale(p, ok) ==
  IF lockFile = NoFile \/ pc[lockFile] = "killed"
    THEN lockFile' = p /\ ok = TRUE
    ELSE lockFile' = lockFile /\ ok = FALSE

\* acquire_lock: os.open with O_CREAT | O_EXCL creates the file or fails with
\* FileExistsError; ok is the value returned.
acquire_lock(p, ok) ==
  IF lockFile = NoFile
    THEN lockFile' = p /\ ok = TRUE
    ELSE lockFile' = lockFile /\ ok = FALSE

\* Mutant of release_lock: the file is left in place.
release_lock_Keeps == lockFile' = lockFile

\* release_lock: os.remove, FileNotFoundError ignored.
release_lock == lockFile' = NoFile

\* Mutant of sleep_for: an exponential delay instead of the clamped table.
sleep_for_Exponential(a) == BACKOFF_SECS[1] * 3 ^ (a - 1)

\* BACKOFF_SECS[min(attempt-1, len(BACKOFF_SECS)-1)], lists counted from 0
sleep_for(a) == BACKOFF_SECS[Min(a - 1, Len(BACKOFF_SECS) - 1) + 1]

\* Mutant of RetriesExhausted: >= instead of >.
RetriesExhausted_OffByOne(a) == a >= maxRetries

\* if attempt > MAX_RETRIES
RetriesExhausted(a) == a > maxRetries

\* Mutant of AlreadyRunning: the result of acquire_lock is ignored.
AlreadyRunning_GoesOn(p) ==
  /\ pc' = [pc EXCEPT ![p] = "launch"]
  /\ UNCHANGED ret

\* Mutant of AlreadyRunning: the test sits inside the try, so that return 0
\* runs the finally clause.
AlreadyRunning_Releases(p) ==
  /\ pc' = [pc EXCEPT ![p] = "release"]
  /\ ret' = [ret EXCEPT ![p] = 0]

\* if not acquire_lock(): log and return 0.
AlreadyRunning(p) ==
  /\ pc' = [pc EXCEPT ![p] = "exit"]
  /\ ret' = [ret EXCEPT ![p] = 0]

\* main, line 140: the lock is taken, or the pipeline returns 0 at once.
Acquire(p) ==
  /\ pc[p] = "acquire"
  /\ \E ok \in BOOLEAN :
       /\ acquire_lock(p, ok)
       /\ gotLock' = [gotLock EXCEPT ![p] = ok]
       /\ IF ok
            THEN /\ pc' = [pc EXCEPT ![p] = "launch"]
                 /\ UNCHANGED ret
            ELSE AlreadyRunning(p)
  /\ UNCHANGED <<cfgVars, log, sent, now, stageIdx, attempt, orchHist, workVars, workHist>>

\* run_worker: Popen starts the worker process; the orchestrator reads its
\* output until it ends.
Launch(p) ==
  /\ pc[p] = "launch"
  /\ pc' = [pc EXCEPT ![p] = "wait"]
  /\ runs' = [runs EXCEPT ![p] = @ + 1]
  /\ launched' = [launched EXCEPT ![p] = @ \cup {stageIdx[p]}]
  /\ wpc' = [wpc EXCEPT ![p] = "boot"]
  /\ UNCHANGED <<cfgVars, log, sent, now, lockFile, stageIdx, attempt, ret, gotLock,
                 fails, sleeps, okStages, released, rc, win, todo, cur, workHist>>

\* run_worker: the worker file does not exist, 127 is returned at once.
LaunchNoWorker(p) ==
  /\ pc[p] = "launch"
  /\ pc' = [pc EXCEPT ![p] = "wait"]
  /\ runs' = [runs EXCEPT ![p] = @ + 1]
  /\ launched' = [launched EXCEPT ![p] = @ \cup {stageIdx[p]}]
  /\ wpc' = [wpc EXCEPT ![p] = "exited"]
  /\ rc' = [rc EXCEPT ![p] = EXIT_NO_WORKER]
  /\ UNCHANGED <<cfgVars, log, sent, now, lockFile, stageIdx, attempt, ret, gotLock,
                 fails, sleeps, okStages, released, win, todo, cur, workHist>>

\* run_worker: Popen raises OSError.  The exception leaves the for loop
\* through the finally clause; the interpreter ends with status 1.
LaunchRaises(p) ==
  /\ pc[p] = "launch"
  /\ runs' = [runs EXCEPT ![p] = @ + 1]
  /\ launched' = [launched EXCEPT ![p] = @ \cup {stageIdx[p]}]
  /\ ret' = [ret EXCEPT ![p] = EXIT_FATAL]
  /\ pc' = [pc EXCEPT ![p] = "release"]
  /\ UNCHANGED <<cfgVars, log, sent, now, lockFile, stageIdx, attempt, gotLock,
                 fails, sleeps, okStages, released, workVars, workHist>>

\* rc == 0: break.  The for loop goes on with the next stage, attempt = 0
\* again; after the last stage main returns 0.
StageSucceeded(p) ==
  /\ okStages' = [okStages EXCEPT ![p] = @ \cup {stageIdx[p]}]
  /\ IF stageIdx[p] < NumStages
       THEN /\ stageIdx' = [stageIdx EXCEPT ![p] = @ + 1]
            /\ attempt' = [attempt EXCEPT ![p] = 0]
            /\ runs' = [runs EXCEPT ![p] = 0]
            /\ fails' = [fails EXCEPT ![p] = 0]
            /\ sleeps' = [sleeps EXCEPT ![p] = <<>>]
            /\ pc' = [pc EXCEPT ![p] = "launch"]
            /\ UNCHANGED ret
       ELSE /\ ret' = [ret EXCEPT ![p] = 0]
            /\ pc' = [pc EXCEPT ![p] = "release"]
            /\ UNCHANGED <<stageIdx, attempt, runs, fails, sleeps>>

\* Mutant of StageFatal: return 1 instead of rc.
StageFatal_Status1(p) ==
  /\ fails' = [fails EXCEPT ![p] = @ + 1]
  /\ attempt' = [attempt EXCEPT ![p] = @ + 1]
  /\ ret' = [ret EXCEPT ![p] = EXIT_FATAL]
  /\ pc' = [pc EXCEPT ![p] = "release"]
  /\ UNCHANGED <<stageIdx, runs, sleeps, okStages>>

\* attempt > MAX_RETRIES: return rc, through the finally clause.
StageFatal(p) ==
  /\ fails' = [fails EXCEPT ![p] = @ + 1]
  /\ attempt' = [attempt EXCEPT ![p] = @ + 1]
  /\ ret' = [ret EXCEPT ![p] = rc[p]]
  /\ pc' = [pc EXCEPT ![p] = "release"]
  /\ UNCHANGED <<stageIdx, runs, sleeps, okStages>>

\* Mutant of StageRetry: after a failure the for loop goes on with the next
\* stage.
StageRetry_NextStage(p) ==
  /\ fails' = [fails EXCEPT ![p] = 0]
  /\ attempt' = [attempt EXCEPT ![p] = 0]
  /\ sleeps' = [sleeps EXCEPT ![p] = <<>>]
  /\ runs' = [runs EXCEPT ![p] = 0]
  /\ stageIdx' = [stageIdx EXCEPT ![p] = IF @ < NumStages THEN @ + 1 ELSE @]
  /\ pc' = [pc EXCEPT ![p] = "launch"]
  /\ UNCHANGED <<ret, okStages>>

\* Otherwise time.sleep(sleep_for), and the while loop runs the worker again.
StageRetry(p) ==
  /\ fails' = [fails EXCEPT ![p] = @ + 1]
  /\ attempt' = [attempt EXCEPT ![p] = @ + 1]
  /\ sleeps' = [sleeps EXCEPT ![p] = Append(@, sleep_for(attempt[p] + 1))]
  /\ pc' = [pc EXCEPT ![p] = "sleep"]
  /\ UNCHANGED <<stageIdx, runs, ret, okStages>>

\* main, lines 149-158: run_worker returned rc.
AfterWorker(p) ==
  /\ pc[p] = "wait"
  /\ wpc[p] = "exited"
  /\ IF rc[p] = 0
       THEN StageSucceeded(p)
       ELSE IF RetriesExhausted(attempt[p] + 1) THEN StageFatal(p) ELSE StageRetry(p)
  /\ wpc' = [wpc EXCEPT ![p] = None]
  /\ rc' = [rc EXCEPT ![p] = 0]
  /\ win' = [win EXCEPT ![p] = NoWindow]
  /\ batch' = [batch EXCEPT ![p] = {}]
  /\ UNCHANGED <<cfgVars, log, sent, now, lockFile, gotLock, launched, released,
                 todo, cur, delivered>>

\* time.sleep(sleep_for) is over.
Sleep(p) ==
  /\ pc[p] = "sleep"
  /\ pc' = [pc EXCEPT ![p] = "launch"]
  /\ UNCHANGED <<cfgVars, log, sent, now, lockFile, stageIdx, attempt, ret, gotLock,
                 orchHist, workVars, workHist>>

\* finally: release_lock(); then main returns ret, or the exception goes on.
\* The locals of main are gone.
Release(p) ==
  /\ pc[p] = "release"
  /\ release_lock
  /\ released' = [released EXCEPT ![p] = TRUE]
  /\ pc' = [pc EXCEPT ![p] = "exit"]
  /\ stageIdx' = [stageIdx EXCEPT ![p] = 1]
  /\ attempt' = [attempt EXCEPT ![p] = 0]
  /\ runs' = [runs EXCEPT ![p] = 0]
  /\ fails' = [fails EXCEPT ![p] = 0]
  /\ sleeps' = [sleeps EXCEPT ![p] = <<>>]
  /\ launched' = [launched EXCEPT ![p] = {}]
  /\ okStages' = [okStages EXCEPT ![p] = {}]
  /\ UNCHANGED <<cfgVars, log, sent, now, ret, gotLock, workVars, workHist>>

\* sys.exit(n): the status the parent sees is the low byte of n.
ExitStatus(p) == ret[p] % 256

\* sys.exit(main()): the process ends with status ret.
Exit(p) ==
  /\ pc[p] = "exit"
  /\ pc' = [pc EXCEPT ![p] = "done"]
  /\ ret' = [ret EXCEPT ![p] = 0]
  /\ gotLock' = [gotLock EXCEPT ![p] = FALSE]
  /\ released' = [released EXCEPT ![p] = FALSE]
  /\ UNCHANGED <<cfgVars, log, sent, now, lockFile, stageIdx, attempt, runs, fails, sleeps,
                 launched, okStages, workVars, workHist>>

\* ------------------------------------------------------------ specification
\* The settings and the store of a run of the model.
Configure(c) ==
  /\ maxRetries = c.maxRetries
  /\ maxBatch = c.maxBatch
  /\ sendEmails = c.sendEmails
  /\ wishlistUrl = c.wishlistUrl
  /\ guests = c.guests
  /\ horizon = c.horizon
  /\ fixedMode = c.fixedMode
  /\ tolerance = c.tolerance

\* Live sending, with one retry per stage, of one row whose address is stored
\* with a leading blank, beside a row whose wishlist is empty.
LiveConfigs ==
  [maxRetries : {1}, maxBatch : {2}, sendEmails : {TRUE}, wishlistUrl : {"ok"},
   guests : {{RowSp3, RowB4}}, horizon : {96},
   fixedMode : {FALSE}, tolerance : {WINDOW_TOLERANCE_H}]

\* Live sending, without retries, to one recipient with two wishlists.
TwoListConfigs ==
  [maxRetries : {0}, maxBatch : {2}, sendEmails : {TRUE}, wishlistUrl : {"ok"},
   guests : {{RowA1, RowA2}}, horizon : {96},
   fixedMode : {FALSE}, tolerance : {WINDOW_TOLERANCE_H}]

\* Previews, and a missing or an invalid WISHLIST_URL, with ORCH_MAX_RETRIES
\* at its default or one above it.
DryConfigs ==
  {c \in [maxRetries : {MAX_RETRIES, MAX_RETRIES + 1}, maxBatch : {2}, sendEmails : BOOLEAN,
          wishlistUrl : {"", "bad", "ok"}, guests : {{RowSp3, RowB4}}, horizon : {96},
   fixedMode : {FALSE}, tolerance : {WINDOW_TOLERANCE_H}] :
     ~ (c.sendEmails /\ c.wishlistUrl = "ok")}

Configs == LiveConfigs \cup TwoListConfigs \cup DryConfigs

Start ==
  /\ items = StoreItems
  /\ log = {}
  /\ sent = [m \in Msgs |-> 0]
  /\ now = DateTime(96 * Hour, 0)
  /\ lockFile = NoFile
  /\ pc = [p \in Procs |-> "acquire"]
  /\ stageIdx = [p \in Procs |-> 1]
  /\ attempt = [p \in Procs |-> 0]
  /\ rc = [p \in Procs |-> 0]
  /\ ret = [p \in Procs |-> 0]
  /\ gotLock = [p \in Procs |-> FALSE]
  /\ runs = [p \in Procs |-> 0]
  /\ fails = [p \in Procs |-> 0]
  /\ sleeps = [p \in Procs |-> <<>>]
  /\ launched = [p \in Procs |-> {}]
  /\ okStages = [p \in Procs |-> {}]
  /\ released = [p \in Procs |-> FALSE]
  /\ wpc = [p \in Procs |-> None]
  /\ win = [p \in Procs |-> NoWindow]
  /\ todo = [p \in Procs |-> {}]
  /\ cur = [p \in Procs |-> NoRow]
  /\ batch = [p \in Procs |-> {}]
  /\ delivered = {}

Init == Start /\ \E c \in Configs : Configure(c)

OrchStep(p) ==
  \/ Acquire(p)
  \/ Launch(p)
  \/ LaunchNoWorker(p)
  \/ LaunchRaises(p)
  \/ AfterWorker(p)
  \/ Sleep(p)
  \/ Release(p)
  \/ Exit(p)

WorkerStep(p) ==
  \/ WorkerImportFail(p)
  \/ WorkerTemplateFail(p)
  \/ WorkerBoot(p)
  \/ WorkerConnect(p)
  \/ WorkerConnectFail(p)
  \/ WorkerSelect(p)
  \/ WorkerSelectFail(p)
  \/ WorkerNext(p)
  \/ WorkerDone(p)
  \/ WorkerRender(p)
  \/ WorkerRenderFail(p)
  \/ WorkerSend(p)
  \/ WorkerSendFail(p)
  \/ WorkerSendQuitFail(p)
  \/ WorkerInsertLog(p)
  \/ WorkerInsertLogFail(p)
  \/ WorkerKilled(p)

Next == \E p \in Procs : OrchStep(p) \/ WorkerStep(p)

Spec == Init /\ [][Next]_vars

\* Every orchestrator and every worker process that can take a step
\* eventually takes one: none is stopped for ever, sleeps and waits end.
FairSpec == Spec /\ \A p \in Procs : WF_vars(OrchStep(p)) /\ WF_vars(WorkerStep(p))

\* Live sending without retries with MAX_BATCH = 1, to one recipient with two
\* wishlists: more rows are eligible than one query returns.
CapConfigs ==
  [maxRetries : {0}, maxBatch : {1}, sendEmails : {TRUE}, wishlistUrl : {"ok"},
   guests : {{RowA1, RowA2}}, horizon : {96},
   fixedMode : {FALSE}, tolerance : {WINDOW_TOLERANCE_H}]

CapInit == Start /\ \E c \in CapConfigs \cup DryConfigs : Configure(c)

\* The program with a batch limit that binds.
CapSpec == CapInit /\ [][Next]_vars


\* ------------------------------------------------- the window calculator
\* compute_window alone: a worker process reads the clock at any instant and
\* computes the window of its stage, for both modes and several tolerances.

\* Day 4 is the day D of the readings: the last instant of a local day, the
\* first instant of the next, 09:00, 12:00, 12:00 and a half second, and the
\* same one day later.
DayD == 4
WindowNows ==
  { DateTime(DayD * Day + 6 * Hour - 1, MaxMicro),
    DateTime(DayD * Day + 6 * Hour, 0),
    DateTime(DayD * Day + 9 * Hour, 0),
    DateTime(DayD * Day + 12 * Hour, 0),
    DateTime(DayD * Day + 12 * Hour, 500000),
    DateTime((DayD + 1) * Day + 6 * Hour - 1, MaxMicro),
    DateTime((DayD + 1) * Day + 9 * Hour, 0) }

WindowConfigs ==
  [maxRetries : {MAX_RETRIES}, maxBatch : {2}, sendEmails : {FALSE}, wishlistUrl : {"ok"},
   guests : {{}}, horizon : {(DayD + 2) * 24},
   fixedMode : BOOLEAN, tolerance : {WINDOW_TOLERANCE_H, 2 * WINDOW_TOLERANCE_H}]

WindowInit == Start /\ \E c \in WindowConfigs : Configure(c)

\* main, line 426: compute_window, for any reading of the clock, while no
\* other process holds a window.
WindowRead(p) ==
  /\ \A q \in Procs \ {p} : win[q] = NoWindow
  /\ \E n \in WindowNows :
       /\ now' = n
       /\ win' = [win EXCEPT ![p] = WindowAt(n, Stage(p).TARGET_HOURS)]
  /\ UNCHANGED <<cfgVars, log, sent, lockFile, orchVars, orchHist, wpc, rc, todo, cur, workHist>>

\* The process ends; the next one is started for any of the stages.
WindowDrop(p) ==
  /\ win[p] # NoWindow
  /\ win' = [win EXCEPT ![p] = NoWindow]
  /\ \E i \in 1..NumStages : stageIdx' = [stageIdx EXCEPT ![p] = i]
  /\ UNCHANGED <<cfgVars, log, sent, now, lockFile, pc, attempt, ret, gotLock, orchHist,
                 wpc, rc, todo, cur, workHist>>

WindowNext == \E p \in Procs : WindowRead(p) \/ WindowDrop(p)

WindowSpec == WindowInit /\ [][WindowNext]_vars


\* ------------------------------------------------- the candidate selector
\* select_candidates alone: one worker at a time calls it, once or several
\* times, for any stage and any of the clock readings below, on a store with
\* more eligible rows than MAX_BATCH or not; insert_log is called for rows it
\* returned.

\* Readings that put the event of the store's rows (72 h, UTC) in the middle
\* of the window of the stage 24, 48 or 72, and one that puts the start of
\* the 24 h window half a second after it.
SelectNows ==
  { DateTime(96 * Hour, 0), DateTime(102 * Hour, 500000),
    DateTime(120 * Hour, 0), DateTime(144 * Hour, 0) }

SelectConfigs ==
  [maxRetries : {MAX_RETRIES}, maxBatch : {1, 2}, sendEmails : {TRUE}, wishlistUrl : {"ok"},
   guests : {{RowA1, RowSp3, RowB4}}, horizon : {144},
   fixedMode : {FALSE}, tolerance : {WINDOW_TOLERANCE_H}]

SelectInit == Start /\ \E c \in SelectConfigs : Configure(c)

\* A worker of any stage starts and computes its window.
SelectOpen(p) ==
  /\ \A q \in Procs : wpc[q] = None
  /\ \E i \in 1..NumStages, n \in SelectNows :
       /\ stageIdx' = [stageIdx EXCEPT ![p] = i]
       /\ now' = n
       /\ win' = [win EXCEPT ![p] = WindowAt(n, stages[i].TARGET_HOURS)]
  /\ wpc' = [wpc EXCEPT ![p] = "select"]
  /\ UNCHANGED <<cfgVars, log, sent, lockFile, pc, attempt, ret, gotLock, orchHist,
                 rc, todo, cur, workHist>>

\* rows = select_candidates(conn, start_utc, end_utc), a first or a further
\* call with the same arguments.
SelectCall(p) ==
  /\ wpc[p] \in {"select", "loop"}
  /\ \E rows \in select_candidates(CAMPAIGN_KEY(p), win[p]) :
       batch' = [batch EXCEPT ![p] = rows]
  /\ wpc' = [wpc EXCEPT ![p] = "loop"]
  /\ UNCHANGED <<cfgVars, log, sent, now, lockFile, orchVars, orchHist, rc, win, todo, cur,
                 delivered>>

\* insert_log for a row of the last result.
SelectInsert(p) ==
  /\ wpc[p] = "loop"
  /\ \E r \in batch[p] :
       /\ insert_log(r.email, r.wishlist_id, CAMPAIGN_KEY(p))
       /\ delivered' = delivered \cup {[email |-> r.email, wishlist_id |-> r.wishlist_id,
                                         campaign_key |-> CAMPAIGN_KEY(p)]}
  /\ wpc' = [wpc EXCEPT ![p] = "select"]
  /\ batch' = [batch EXCEPT ![p] = {}]
  /\ UNCHANGED <<cfgVars, sent, now, lockFile, orchVars, orchHist, rc, win, todo, cur>>

\* The worker ends.
SelectClose(p) ==
  /\ wpc[p] \in {"select", "loop"}
  /\ wpc' = [wpc EXCEPT ![p] = None]
  /\ win' = [win EXCEPT ![p] = NoWindow]
  /\ batch' = [batch EXCEPT ![p] = {}]
  /\ stageIdx' = [stageIdx EXCEPT ![p] = 1]
  /\ UNCHANGED <<cfgVars, log, sent, now, lockFile, pc, attempt, ret, gotLock, orchHist,
                 rc, todo, cur, delivered>>

SelectNext ==
  \E p \in Procs : SelectOpen(p) \/ SelectCall(p) \/ SelectInsert(p) \/ SelectClose(p)

SelectSpec == SelectInit /\ [][SelectNext]_vars


\* ------------------------------------------------------ repeated stage runs
\* The scheduler invokes the pipeline again and again while the window of the
\* 24 h stage stays the same: each invocation runs one worker of that stage,
\* one at a time.  MAX_BATCH = 1 and two or three rows are eligible.  The
\* only failure is a send_email that raises before the server accepted the
\* message.
RepeatConfigs ==
  [maxRetries : {0}, maxBatch : {1}, sendEmails : {TRUE}, wishlistUrl : {"ok"},
   guests : {{RowA1, RowA2}, {RowA1, RowA2, RowC5}}, horizon : {96},
   fixedMode : {FALSE}, tolerance : {WINDOW_TOLERANCE_H}]

RepeatInit == Start /\ \E c \in RepeatConfigs : Configure(c)

\* run_worker for the stage of a new invocation.
RepeatStart(p) ==
  /\ \A q \in Procs : wpc[q] = None
  /\ wpc' = [wpc EXCEPT ![p] = "boot"]
  /\ UNCHANGED <<cfgVars, log, sent, now, lockFile, orchVars, orchHist, rc, win, todo, cur,
                 workHist>>

\* The worker process has ended and run_worker returned.
RepeatEnd(p) ==
  /\ wpc[p] = "exited"
  /\ wpc' = [wpc EXCEPT ![p] = None]
  /\ rc' = [rc EXCEPT ![p] = 0]
  /\ win' = [win EXCEPT ![p] = NoWindow]
  /\ batch' = [batch EXCEPT ![p] = {}]
  /\ UNCHANGED <<cfgVars, log, sent, now, lockFile, orchVars, orchHist, todo, cur, delivered>>

RepeatStep(p) ==
  \/ RepeatStart(p)
  \/ WorkerBoot(p)
  \/ WorkerConnect(p)
  \/ WorkerSelect(p)
  \/ WorkerNext(p)
  \/ WorkerDone(p)
  \/ WorkerRender(p)
  \/ WorkerSend(p)
  \/ WorkerSendFail(p)
  \/ WorkerInsertLog(p)
  \/ RepeatEnd(p)

RepeatNext == \E p \in Procs : RepeatStep(p)

RepeatSpec == RepeatInit /\ [][RepeatNext]_vars

\* No invocation and no worker is stopped for ever.  Nothing obliges the SMTP
\* server to accept a message it has refused before.
RepeatFairSpec == RepeatSpec /\ \A p \in Procs : WF_vars(RepeatStep(p))


\* ------------------------------------------------------- a killed pipeline
\* The orchestrator process may be killed while it holds the lock; the
\* scheduler invokes the pipeline again after an invocation has ended; the
\* lock file may be removed from outside the program.

KillConfigs ==
  [maxRetries : {1}, maxBatch : {2}, sendEmails : {TRUE}, wishlistUrl : {"ok"},
   guests : {{RowA1}}, horizon : {96},
   fixedMode : {FALSE}, tolerance : {WINDOW_TOLERANCE_H}]

KillInit == Start /\ \E c \in KillConfigs : Configure(c)

\* The orchestrator process is killed between acquire_lock and release_lock:
\* the finally clause does not run.  Its worker process, if any, goes on.
OrchKilled(p) ==
  /\ pc[p] \in {"launch", "wait", "sleep", "release"}
  /\ pc' = [pc EXCEPT ![p] = "killed"]
  /\ stageIdx' = [stageIdx EXCEPT ![p] = 1]
  /\ attempt' = [attempt EXCEPT ![p] = 0]
  /\ ret' = [ret EXCEPT ![p] = 0]
  /\ gotLock' = [gotLock EXCEPT ![p] = FALSE]
  /\ runs' = [runs EXCEPT ![p] = 0]
  /\ fails' = [fails EXCEPT ![p] = 0]
  /\ sleeps' = [sleeps EXCEPT ![p] = <<>>]
  /\ launched' = [launched EXCEPT ![p] = {}]
  /\ okStages' = [okStages EXCEPT ![p] = {}]
  /\ UNCHANGED <<cfgVars, log, sent, now, lockFile, released, workVars, workHist>>

\* The scheduler starts the pipeline again.
Invoke(p) ==
  /\ pc[p] = "done"
  /\ pc' = [pc EXCEPT ![p] = "acquire"]
  /\ UNCHANGED <<cfgVars, log, sent, now, lockFile, stageIdx, attempt, ret, gotLock,
                 orchHist, workVars, workHist>>

\* The lock file of a killed orchestrator is removed by an operator.
ExternalClear ==
  /\ lockFile # NoFile
  /\ pc[lockFile] = "killed"
  /\ lockFile' = NoFile
  /\ UNCHANGED <<cfgVars, log, sent, now, orchVars, orchHist, workVars, workHist>>

KillWorkerStep(p) ==
  \/ WorkerBoot(p)
  \/ WorkerConnect(p)
  \/ WorkerConnectFail(p)
  \/ WorkerSelect(p)
  \/ WorkerNext(p)
  \/ WorkerDone(p)
  \/ WorkerRender(p)
  \/ WorkerSend(p)
  \/ WorkerInsertLog(p)

KillNext ==
  \/ \E p \in Procs : OrchStep(p) \/ KillWorkerStep(p) \/ OrchKilled(p) \/ Invoke(p)
  \/ ExternalClear

KillSpec == KillInit /\ [][KillNext]_vars


\* ==================================================================== claims

\* A row of the log matches the row r of the guest table for the campaign ck.
Logged(r, ck) ==
  \E l \in log : SqlEq(l.email, r.email) /\ l.wishlist_id = r.wishlist_id /\ l.campaign_key = ck

\* C1: across repeated runs, stage retries, worker crashes and insert_log
\* failures, the server accepts at most one message for each (recipient,
\* wishlist, campaign).
C1_AtMostOnce == \A m \in Msgs : sent[m] <= 1

C3_NeverAgain ==
  [][\A p \in Procs : \A r \in batch'[p] :
       batch'[p] # batch[p] =>
         [email |-> r.email, wishlist_id |-> r.wishlist_id,
          campaign_key |-> CAMPAIGN_KEY(p)] \notin delivered]_vars

\* An orchestrator run is between its successful acquire_lock and the end of
\* its release_lock.
Holding(p) == pc[p] \in {"launch", "wait", "sleep", "release"}

\* C4: at most one orchestrator run is between a successful acquire_lock and
\* its release_lock; the lock file names that run, and no two runs have a
\* worker of a stage running at the same time.
C4_MutualExclusion ==
  \A p, q \in Procs :
    /\ Holding(p) => lockFile = p
    /\ (p # q) => ~ (Holding(p) /\ Holding(q))
    /\ (p # q) => ~ (Running(p) /\ Running(q))

\* C4 witness: a run is refused while another run has the worker of the last
\* stage running.
C4_Contended ==
  \E p, q \in Procs :
    /\ p # q
    /\ Running(p) /\ stageIdx[p] = NumStages
    /\ pc[q] = "exit" /\ ~ gotLock[q]

\* C5: acquire_lock called while the lock file exists returns false and leaves
\* the file as it is; called while the file is absent, after a release_lock
\* included, it creates the file and returns true; the call never waits.
C5_AcquireNonBlocking ==
  /\ [](\A p \in Procs : pc[p] = "acquire" => ENABLED Acquire(p))
  /\ [][\A p \in Procs :
          (pc[p] = "acquire" /\ pc'[p] # "acquire") =>
             IF lockFile # NoFile
               THEN ~ gotLock'[p] /\ lockFile' = lockFile
               ELSE gotLock'[p] /\ lockFile' = p]_vars

\* C5 witness: a run holds the lock that another run, now ended, has released.
C5_Reacquired ==
  \E p, q \in Procs :
    /\ p # q
    /\ pc[p] = "exit" /\ released[p]
    /\ gotLock[q] /\ lockFile = q

\* C6: a run whose acquire_lock returned false launches no worker for any
\* stage and ends with status 0.
C6_RefusedExitsClean ==
  \A p \in Procs :
    /\ ~ gotLock[p] =>
         /\ pc[p] \in {"acquire", "exit", "done"}
         /\ launched[p] = {} /\ runs[p] = 0 /\ wpc[p] = None
    /\ (pc[p] = "exit" /\ ~ gotLock[p]) => (ExitStatus(p) = 0 /\ ~ released[p])

\* C6 witness: a refused run is about to end while the run that holds the lock
\* has launched workers.
C6_Refused ==
  \E p, q \in Procs :
    /\ pc[q] = "exit" /\ ~ gotLock[q] /\ ret[q] = 0 /\ launched[q] = {}
    /\ lockFile = p /\ launched[p] # {}

\* C7: a run that acquired the lock eventually ends, release_lock is the last
\* thing it did, on every exit path, and the lock file is not its own any more
\* once it has ended.
C7_AlwaysReleased ==
  /\ \A p \in Procs : (pc[p] = "launch") ~> (pc[p] = "exit" /\ released[p])
  /\ [](\A p \in Procs : (pc[p] = "exit" /\ gotLock[p]) => released[p])
  /\ [](\A p \in Procs : pc[p] \in {"exit", "done"} => lockFile # p)
  /\ [][\A p \in Procs : (pc[p] = "release" /\ pc'[p] # "release") =>
           (pc'[p] = "exit" /\ lockFile' = NoFile)]_vars

\* C7 witness: a run has released the lock after a fatal stage failure.
C7_ReleasedAfterFatal ==
  \E p \in Procs :
    pc[p] = "exit" /\ released[p] /\ ret[p] = EXIT_DB /\ lockFile = NoFile

\* The worker of the current stage has ended and run_worker returns.
Returned(p) == pc[p] = "wait" /\ wpc[p] = "exited"

\* C8: for each stage, with attempt starting at 0, a worker that fails k
\* times (k <= MAX_RETRIES) and then succeeds has been run k+1 times and the
\* stage is over; a worker that fails MAX_RETRIES+1 times has been run
\* MAX_RETRIES+1 times and main returns; after fewer failures the worker is
\* run again.
C8_RetryBudget ==
  /\ [](\A p \in Procs :
          /\ Holding(p) /\ pc[p] # "release" => attempt[p] = fails[p]
          /\ (pc[p] = "launch" /\ runs[p] = 0) => attempt[p] = 0
          /\ pc[p] = "launch" => runs[p] = fails[p]
          /\ Returned(p) => (runs[p] = fails[p] + 1 /\ fails[p] <= maxRetries))
  /\ [][\A p \in Procs :
          (Returned(p) /\ ~ Returned(p)') =>
             IF rc[p] = 0
               THEN /\ runs[p] = fails[p] + 1
                    /\ fails'[p] \in {0, fails[p]}
                    /\ IF stageIdx[p] < NumStages
                         THEN /\ stageIdx'[p] = stageIdx[p] + 1
                              /\ pc'[p] = "launch"
                              /\ attempt'[p] = 0 /\ runs'[p] = 0
                         ELSE pc'[p] = "release" /\ ret'[p] = 0
               ELSE IF fails[p] = maxRetries
                 THEN /\ runs[p] = maxRetries + 1
                      /\ pc'[p] = "release" /\ ret'[p] # 0
                 ELSE /\ pc'[p] = "sleep"
                      /\ stageIdx'[p] = stageIdx[p] /\ runs'[p] = runs[p]]_vars

\* C8 witness: with MAX_RETRIES = 2, the worker of the second stage has failed
\* twice and succeeds in its third run.
C8_ThirdRunSucceeds ==
  \E p \in Procs :
    /\ maxRetries = MAX_RETRIES
    /\ Returned(p) /\ rc[p] = 0
    /\ stageIdx[p] = 2 /\ fails[p] = 2 /\ runs[p] = 3

\* The delay of the spec's table after the i-th failed attempt.
Backoff(i) == IF i = 1 THEN 10 ELSE 30

\* C9: the sleep after the i-th failed attempt of a stage is 10 for i = 1
\* and 30 for every later i; there is one sleep per failed attempt that is
\* followed by another attempt, none before the first attempt and none after
\* the attempt that exhausts the budget.
C9_BackoffTable ==
  /\ [](\A p \in Procs :
          /\ \A i \in 1..Len(sleeps[p]) : sleeps[p][i] = Backoff(i)
          /\ pc[p] \in {"launch", "wait", "sleep"} => Len(sleeps[p]) = fails[p]
          /\ (pc[p] = "launch" /\ runs[p] = 0) => sleeps[p] = <<>>
          /\ (pc[p] = "release" /\ fails[p] > maxRetries) => Len(sleeps[p]) = maxRetries)
  /\ [][\A p \in Procs :
          (pc'[p] = "sleep" /\ pc[p] # "sleep") =>
             /\ Returned(p) /\ rc[p] # 0 /\ fails'[p] <= maxRetries
             /\ sleeps'[p] = Append(sleeps[p], Backoff(fails'[p]))]_vars

\* C9 witness: with MAX_RETRIES = 3 a stage has slept 10, 30 and 30.
C9_ThreeSleeps ==
  \E p \in Procs :
    maxRetries = 3 /\ pc[p] = "sleep" /\ sleeps[p] = <<10, 30, 30>>

\* The step in which the worker's failure exhausts the budget of its stage.
FatalStep(p) == Returned(p) /\ rc[p] # 0 /\ pc'[p] = "release"

\* C10, as claimed: when the budget of a stage is exhausted the exit status of
\* the pipeline is the return code of the stage's last failed attempt.
C10_StatusIsReturnCode ==
  [][\A p \in Procs : FatalStep(p) => ExitStatus(p)' = rc[p]]_vars

\* C10, as amended: when the budget of a stage is exhausted no worker of a
\* later stage is launched, and the exit status is the low byte of the return
\* code of the last failed attempt, which is not 0; the exit status is 0 only
\* when the worker of every stage ended with 0 or the lock was not acquired.
C10_FatalPropagates ==
  /\ [][\A p \in Procs :
          FatalStep(p) => /\ ExitStatus(p)' = rc[p] % 256
                          /\ ExitStatus(p)' # 0
                          /\ launched[p] = 1..stageIdx[p]]_vars
  /\ [][\A p \in Procs :
          pc[p] \in {"release", "exit", "done"} =>
             /\ pc'[p] \in {"release", "exit", "done"}
             /\ runs'[p] <= runs[p] /\ wpc'[p] = None
             /\ pc[p] = "release" => ret'[p] = ret[p]]_vars
  /\ [](\A p \in Procs :
          /\ (pc[p] = "release" /\ ExitStatus(p) = 0) => okStages[p] = 1..NumStages
          /\ (pc[p] = "exit" /\ ExitStatus(p) = 0 /\ ~ released[p]) => ~ gotLock[p])

\* C10 witness: the second stage has exhausted its budget with the worker's
\* status 3; the third stage was never launched.
C10_SecondStageFatal ==
  \E p \in Procs :
    /\ pc[p] = "release" /\ ret[p] = EXIT_DB
    /\ stageIdx[p] = 2 /\ fails[p] = maxRetries + 1
    /\ launched[p] = {1, 2} /\ okStages[p] = {1}

\* The worker of p ends in this step, and not because it was killed.
WorkerEnds(p) == wpc[p] # "exited" /\ wpc'[p] = "exited" /\ rc'[p] # EXIT_KILLED

\* C11: within one worker run, a failure of render_template or of send_email
\* for one candidate does not end the run: the candidates that follow it in
\* the batch are still to be rendered and attempted.
C11_FailureSkipsOne ==
  [][\A p \in Procs :
       (wpc[p] \in {"render", "send"} /\ todo[p] # {} /\ wpc'[p] # wpc[p]
          /\ rc'[p] # EXIT_KILLED)
         => (Running(p)' /\ todo'[p] = todo[p])]_vars

\* C12: once select_candidates has completed, the worker's exit code is 0
\* whatever render or dispatch failures follow.
C12_SuccessAfterSelect ==
  [][\A p \in Procs :
       (wpc[p] \in {"loop", "render", "send", "insert"} /\ WorkerEnds(p)) => rc'[p] = 0]_vars

\* C13: a configuration failure of the worker (template file missing,
\* WISHLIST_URL missing) is reported with an exit code that the failure of the
\* connection and the failure of the selection do not use, and the
\* orchestrator does not run the worker of that stage again after it.
C13_ConfigFatal ==
  [][\A p \in Procs :
       /\ (wpc[p] = "boot" /\ WorkerEnds(p)) => rc'[p] \notin {EXIT_FATAL, EXIT_DB}
       /\ (Returned(p) /\ rc[p] = EXIT_TEMPLATE) => pc'[p] # "sleep"]_vars

\* C14: with SEND_EMAILS false no worker reaches send_email or insert_log:
\* the server accepts nothing and the log stays as it was.
C14_PreviewNoEffect ==
  /\ [](~ sendEmails =>
          /\ \A p \in Procs : wpc[p] \notin {"send", "insert"}
          /\ \A m \in Msgs : sent[m] = 0
          /\ log = {} /\ delivered = {})
  /\ [][~ sendEmails => (sent' = sent /\ log' = log)]_vars

\* C14 witness: a preview run has gone through its whole batch.
C14_Previewed ==
  \E p \in Procs :
    ~ sendEmails /\ wpc[p] = "loop" /\ batch[p] # {} /\ todo[p] = {}

\* Process p has just computed its window from the reading now'.
HasRead(p) == win'[p] # NoWindow /\ (win'[p] # win[p] \/ now' # now)

\* C15: in relative mode, for every stage (T, W) and every reading of the
\* clock, start = now - (T+W) h and end = now - (T-W) h: end - start is 2*W
\* hours to the microsecond, and both bounds move by d when the clock moves
\* by d; for T = 24, W = 6 and now = day D 12:00 the window is
\* [D-1 06:00, D-1 18:00].
C15_RelativeWindow ==
  [][\A p \in Procs :
       (~ fixedMode /\ HasRead(p)) =>
          LET T == Stage(p).TARGET_HOURS
              W == tolerance
              w == win'[p]
          IN  /\ now'.s - w.start.s = (T + W) * Hour /\ w.start.us = now'.us
              /\ now'.s - w.end.s = (T - W) * Hour /\ w.end.us = now'.us
              /\ w.end.s - w.start.s = 2 * W * Hour /\ w.end.us = w.start.us
              /\ (win[p] # NoWindow /\ stageIdx'[p] = stageIdx[p]) =>
                   /\ w.start.s - win[p].start.s = now'.s - now.s
                   /\ w.end.s - win[p].end.s = now'.s - now.s
                   /\ w.start.us - win[p].start.us = now'.us - now.us
                   /\ w.end.us - win[p].end.us = now'.us - now.us
              /\ (T = 24 /\ W = 6 /\ now' = DateTime(DayD * Day + 12 * Hour, 0)) =>
                   /\ w.start = DateTime((DayD - 1) * Day + 6 * Hour, 0)
                   /\ w.end = DateTime((DayD - 1) * Day + 18 * Hour, 0)]_vars

\* C15 witness: the window of the 24 h stage with tolerance 6 read at day D
\* 12:00, after a window read at another instant.
C15_NoonWindow ==
  \E p \in Procs :
    /\ ~ fixedMode /\ tolerance = 6 /\ Stage(p).TARGET_HOURS = 24
    /\ now = DateTime(DayD * Day + 12 * Hour, 0)
    /\ win[p] = [start |-> DateTime((DayD - 1) * Day + 6 * Hour, 0),
                 end |-> DateTime((DayD - 1) * Day + 18 * Hour, 0)]

\* The days the claim gives for the three stages.
DaysBefore(T) == IF T = 24 THEN 1 ELSE IF T = 48 THEN 2 ELSE 3

\* The local calendar day of the UTC instant d under the offset -06:00.
LocalDay(d) == (d.s - 6 * Hour) \div Day

\* The statement of C16, with the microseconds of the last instant of a day
\* as a parameter.
FixedDayWindow(lastMicro) ==
     \A p \in Procs :
       (fixedMode /\ HasRead(p)) =>
          LET T == Stage(p).TARGET_HOURS
              day == LocalDay(now') - DaysBefore(T)
              w == win'[p]
          IN  /\ w.start = DateTime(day * Day + 6 * Hour, 0)
              /\ w.end = DateTime((day + 1) * Day + 6 * Hour - 1, lastMicro)
              /\ (win[p] # NoWindow /\ stageIdx'[p] = stageIdx[p]
                    /\ LocalDay(now') = LocalDay(now)) => w = win[p]
              /\ (T = 24 /\ now' = DateTime(DayD * Day + 9 * Hour, 0)) =>
                   /\ w.start = DateTime((DayD - 1) * Day + 6 * Hour, 0)
                   /\ w.end = DateTime(DayD * Day + 5 * Hour + 59 * Minute + 59,
                                       lastMicro)

Selects(p) == wpc[p] \in {"select", "loop"} /\ wpc'[p] = "loop"

\* The log holds a record for the recipient of the address e, the wishlist
\* and the campaign.
SentRecord(e, wishlist_id, ck) ==
  \E l \in log :
    NormEmail(l.email) = NormEmail(e) /\ l.wishlist_id = wishlist_id /\ l.campaign_key = ck

\* C17: select_candidates returns at most MAX_BATCH distinct (email,
\* wishlist) pairs; each is a stored row whose event time, converted to UTC,
\* lies in [start, end], whose wishlist has an item, and for which the log
\* holds no record of the recipient, the wishlist and the campaign.
C17_OnlyEligible ==
  [][\A p \in Procs :
       Selects(p) =>
         /\ Cardinality(batch'[p]) <= maxBatch
         /\ \A r \in batch'[p] :
              /\ \E g \in guests :
                   /\ g.email = r.email /\ g.wishlist_id = r.wishlist_id
                   /\ DtLe(win[p].start, DateTime(ConvertTz(g.created_at), 0))
                   /\ DtLe(DateTime(ConvertTz(g.created_at), 0), win[p].end)
              /\ items[r.wishlist_id] >= 1
              /\ ~ SentRecord(r.email, r.wishlist_id, CAMPAIGN_KEY(p))]_vars

\* C18: a second select_candidates call with the same window, campaign and
\* MAX_BATCH, on the same store and with no insert_log since the first call,
\* returns the same set of rows.
C18_SameResult ==
  [][\A p \in Procs :
       (wpc[p] = "loop" /\ wpc'[p] = "loop" /\ log' = log /\ win'[p] = win[p])
         => batch'[p] = batch[p]]_vars

\* C19: the stages run in the order 24, 48, 72, one worker at a time: a
\* worker is launched only when no worker of the run exists, the stage only
\* moves to the next one, and only when a worker of the stage has ended with
\* 0, so the first worker of a stage is launched after a worker of every
\* earlier stage ended with 0.
C19_StagesInOrder ==
  /\ [](\A p \in Procs :
          /\ pc[p] \in {"launch", "sleep", "release"} => wpc[p] = None
          /\ pc[p] \in {"launch", "wait", "sleep"} =>
               /\ okStages[p] = 1..(stageIdx[p] - 1)
               /\ launched[p] \subseteq 1..stageIdx[p]
               /\ 1..(stageIdx[p] - 1) \subseteq launched[p]
          /\ Running(p) => (pc[p] = "wait" /\ stageIdx[p] \in launched[p]))
  /\ [][\A p \in Procs :
          /\ (wpc'[p] = "boot" /\ wpc[p] # "boot") =>
               (wpc[p] = None /\ pc[p] = "launch"
                  /\ launched'[p] = launched[p] \cup {stageIdx[p]})
          /\ (stageIdx'[p] # stageIdx[p] /\ pc'[p] # "exit") =>
               /\ stageIdx'[p] = stageIdx[p] + 1
               /\ Returned(p) /\ rc[p] = 0
               /\ stages[stageIdx'[p]].STAGE = stages[stageIdx[p]].STAGE + 24]_vars

\* C19 witness: the worker of the 72 h stage runs, after the 24 h and the
\* 48 h stage each had a worker that ended with 0.
C19_ThirdStageRuns ==
  \E p \in Procs :
    /\ stageIdx[p] = 3 /\ Running(p)
    /\ okStages[p] = {1, 2} /\ launched[p] = {1, 2, 3}
    /\ stages[3].STAGE = 72

\* The render or the dispatch of the current row of p fails: render_template
\* raises (the worker ends with 1), or send_email raises (the row is skipped).
DispatchFails(p) ==
  /\ sendEmails
  /\ \/ wpc[p] = "render" /\ wpc'[p] = "exited" /\ rc'[p] = EXIT_FATAL
     \/ wpc[p] = "send" /\ wpc'[p] = "loop"

\* A log row is written only by insert_log, which the worker reaches only from
\* a send_email that returned, for the row it was called for; a failed render
\* or dispatch writes nothing.
WrittenAfterSend ==
  /\ \A p \in Procs :
       (wpc'[p] = "insert" /\ wpc[p] # "insert") =>
         /\ wpc[p] = "send" /\ cur'[p] = cur[p]
         /\ sent'[Message(p)] >= 1
  /\ log' # log =>
       \E p \in Procs :
         /\ wpc[p] = "insert" /\ sent[Message(p)] >= 1
         /\ \A l \in log' \ log :
              /\ l.email = NormEmail(cur[p].email)
              /\ l.wishlist_id = cur[p].wishlist_id
              /\ l.campaign_key = CAMPAIGN_KEY(p)
  /\ \A p \in Procs : DispatchFails(p) => log' = log

\* C20: a SentRecord is written only after send_email returned for the
\* candidate in that run, and a candidate whose render or dispatch failed has
\* no record and is returned by a select_candidates call made afterwards for
\* the same campaign and window.
C20_FailedIsReturned ==
  [][/\ WrittenAfterSend
     /\ \A p \in Procs :
          DispatchFails(p) =>
            \A B \in select_candidates(CAMPAIGN_KEY(p), win[p])' : cur[p] \in B]_vars

\* C20 witness: with MAX_BATCH = 1 and two eligible rows, the dispatch of the
\* one row of the batch failed: the worker is back in its loop, nothing was
\* sent for the row and the log has no row for it.
C20_FailedUnlogged ==
  \E p \in Procs :
    /\ sendEmails /\ maxBatch = 1
    /\ wpc[p] = "loop" /\ todo[p] = {}
    /\ Cardinality(Eligible(CAMPAIGN_KEY(p), win[p])) = 2
    /\ \E r \in batch[p] :
         /\ ~ Logged(r, CAMPAIGN_KEY(p))
         /\ sent[[to |-> NormEmail(r.email), wishlist_id |-> r.wishlist_id,
                  campaign_key |-> CAMPAIGN_KEY(p)]] = 0

\* Two rows of the log are records of the same recipient, wishlist and
\* campaign.
SameRecord(l1, l2) ==
  /\ NormEmail(l1.email) = NormEmail(l2.email)
  /\ l1.wishlist_id = l2.wishlist_id
  /\ l1.campaign_key = l2.campaign_key

\* C21: the log holds at most one record per (recipient, wishlist, campaign),
\* and an insert_log for a key already present adds no record and leaves the
\* pair excluded from select_candidates for that campaign.
C21_OneRecordExcluded ==
  /\ [](\A l1, l2 \in log : SameRecord(l1, l2) => l1 = l2)
  /\ [][\A p \in Procs :
          ( /\ wpc[p] = "insert" /\ wpc'[p] = "loop"
            /\ SentRecord(cur[p].email, cur[p].wishlist_id, CAMPAIGN_KEY(p)) ) =>
            /\ Cardinality(log') = Cardinality(log)
            /\ cur[p] \notin Eligible(CAMPAIGN_KEY(p), win[p])']_vars

\* C21 witness: insert_log is about to run for a pair whose record is in the
\* log already.
C21_SecondInsert ==
  \E p \in Procs :
    /\ wpc[p] = "insert"
    /\ SentRecord(cur[p].email, cur[p].wishlist_id, CAMPAIGN_KEY(p))

\* The window of the 24 h stage at the clock reading of the repeated runs.
RepeatWindow == WindowAt(DateTime(96 * Hour, 0), TARGET_HOURS_24)

\* C22: with more than MAX_BATCH eligible pairs, under repeated runs of the
\* stage in live mode with the same window, every pair that is eligible is
\* eventually returned by select_candidates, also when pairs selected
\* earlier keep failing delivery.
C22_EventuallySelected ==
  \A r \in {[email |-> g.email, wishlist_id |-> g.wishlist_id] : g \in {RowA1, RowA2, RowC5}} :
    (sendEmails /\ r \in Eligible(stages[1].CAMPAIGN_KEY, RepeatWindow))
      ~> (\E p \in Procs : r \in batch[p])

\* C22 witness: a run returned one pair, its delivery failed, and another
\* pair is eligible and was left out: more pairs are eligible than MAX_BATCH.
C22_LeftOut ==
  \E p \in Procs :
    /\ sendEmails /\ maxBatch = 1
    /\ wpc[p] = "loop" /\ todo[p] = {} /\ Cardinality(batch[p]) = 1
    /\ Cardinality(Eligible(CAMPAIGN_KEY(p), win[p])) >= 2
    /\ batch[p] \subseteq Eligible(CAMPAIGN_KEY(p), win[p])
    /\ \E r \in Eligible(CAMPAIGN_KEY(p), win[p]) : r \notin batch[p]

\* The lock file was written by an orchestrator that was killed.
Stale == lockFile # NoFile /\ pc[lockFile] = "killed"

\* C23: the lock file of an orchestrator killed between acquire_lock and
\* release_lock stays in place: while it is there, every invocation that
\* calls acquire_lock is refused, returns 0 and launches no worker, no
\* invocation holds the lock, and the file changes only by being removed from
\* outside the program.
C23_StaleLockBlocks ==
  /\ [][\A p \in Procs :
          (pc[p] \in {"launch", "wait", "sleep", "release"} /\ pc'[p] = "killed") =>
            (lockFile = p /\ lockFile' = p)]_vars
  /\ [](Stale => \A q \in Procs :
                   /\ ~ Holding(q)
                   /\ (pc[q] = "exit" /\ ~ gotLock[q]) =>
                        (ret[q] = 0 /\ ExitStatus(q) = 0 /\ runs[q] = 0 /\ launched[q] = {}))
  /\ [][Stale =>
          /\ \A q \in Procs :
               /\ (pc[q] = "acquire" /\ pc'[q] # "acquire") =>
                    (pc'[q] = "exit" /\ ret'[q] = 0 /\ ~ gotLock'[q])
               /\ ~ (wpc[q] = None /\ wpc'[q] # None)
          /\ \/ lockFile' = lockFile
             \/ lockFile' = NoFile /\ pc' = pc /\ wpc' = wpc]_vars

\* C23 witness: an invocation was refused by the lock file of a killed
\* orchestrator and is about to exit.
C23_RefusedByStale ==
  /\ Stale
  /\ \E q \in Procs : pc[q] = "exit" /\ ~ gotLock[q] /\ ret[q] = 0

\* C24: a record under one campaign never excludes the pair from
\* select_candidates for another campaign: a stored pair with an item, with
\* its event time in the window and with no record for the campaign of the
\* call is a candidate of that call whatever the log holds for the other
\* campaigns; it is returned when at most MAX_BATCH rows are eligible.
C24_ScopedToCampaign ==
  [][\A p \in Procs :
       Selects(p) =>
         \A g \in guests :
           ( /\ items[g.wishlist_id] >= 1
             /\ DtLe(win[p].start, DateTime(ConvertTz(g.created_at), 0))
             /\ DtLe(DateTime(ConvertTz(g.created_at), 0), win[p].end)
             /\ ~ SentRecord(g.email, g.wishlist_id, CAMPAIGN_KEY(p)) ) =>
             LET r == [email |-> g.email, wishlist_id |-> g.wishlist_id]
             IN  /\ r \in Eligible(CAMPAIGN_KEY(p), win[p])
                 /\ Cardinality(Eligible(CAMPAIGN_KEY(p), win[p])) <= maxBatch =>
                      r \in batch'[p]]_vars

\* C24 witness: the call for the 48 h or the 72 h campaign returned a pair
\* that has a record under an earlier campaign.
C24_LaterStageSelects ==
  \E p \in Procs :
    /\ stageIdx[p] >= 2
    /\ \E r \in batch[p] :
         /\ SentRecord(r.email, r.wishlist_id, stages[stageIdx[p] - 1].CAMPAIGN_KEY)
         /\ ~ SentRecord(r.email, r.wishlist_id, CAMPAIGN_KEY(p))

\* C25: an invocation whose acquire_lock returned false never calls
\* release_lock and never removes the lock file: the file of the running
\* invocation stays in place, with its pid, until that invocation itself
\* removes it in its release_lock.
C25_OnlyHolderReleases ==
  /\ [](\A p \in Procs :
          /\ Holding(p) => lockFile = p
          /\ ~ gotLock[p] => (pc[p] # "release" /\ ~ released[p]))
  /\ [][/\ \A q \in Procs :
             (pc[q] = "acquire" /\ pc'[q] # "acquire" /\ ~ gotLock'[q]) =>
               /\ lockFile # NoFile /\ lockFile' = lockFile
               /\ pc'[q] = "exit" /\ ~ released'[q]
        /\ (lockFile # NoFile /\ lockFile' # lockFile) =>
             /\ lockFile' = NoFile
             /\ pc[lockFile] = "release" /\ pc'[lockFile] = "exit"
             /\ gotLock[lockFile] /\ released'[lockFile]]_vars

\* C25 witness: a refused invocation is about to end, and the invocation
\* that holds the lock has reached its release_lock with its file in place.
C25_RefusedLeavesFile ==
  \E p, q \in Procs :
    /\ pc[q] = "exit" /\ ~ gotLock[q] /\ ~ released[q]
    /\ pc[p] = "release" /\ gotLock[p] /\ lockFile = p

\* C26: the address insert_log stores is matched by the exclusion join for
\* every stored guest address, also one that differs from its lower-cased,
\* stripped form: every pair for which insert_log completed has a log row
\* the join matches, and is not eligible for that campaign any more.
C26_StoredAddressMatches ==
  \A d \in delivered :
    LET r == [email |-> d.email, wishlist_id |-> d.wishlist_id]
    IN  /\ SentRecord(d.email, d.wishlist_id, d.campaign_key)
        /\ Logged(r, d.campaign_key)
        /\ \A p \in Procs : r \notin Eligible(d.campaign_key, win[p])

\* C26 witness: insert_log completed for a pair whose stored address differs
\* from its lower-cased, stripped form.
C26_BlankDelivered ==
  \E d \in delivered :
    /\ NormEmail(d.email) # d.email
    /\ \E g \in guests : g.email = d.email /\ g.wishlist_id = d.wishlist_id
    /\ SentRecord(d.email, d.wishlist_id, d.campaign_key)

====
